---- MODULE Spec2Model ----
(***************************************************************************)
(* Model of base::geometry::NURBSCurve3D (src/src/NURBSCurve3D.cpp): the   *)
(* life cycle of a curve object and of the SISL curve handle it owns, the  *)
(* two lazily computed caches, the evaluation and search wrappers, and the *)
(* path-tracking error functions.                                          *)
(*                                                                         *)
(* The SISL library is external.  Each call to it is modelled by the       *)
(* values it hands back (status, output values, a newly allocated curve),  *)
(* drawn nondeterministically from small sets.  Following the status       *)
(* convention documented in update() (< 0 error, = 0 ok, > 0 warning), a   *)
(* call that allocates a curve hands one back when status >= 0.            *)
(***************************************************************************)
EXTENDS Integers, Sequences, FiniteSets, TLC

\* ---------------------------------------------------------------- bounds
MaxHandles == 3   \* SISL curves the library can allocate in one run
MaxPoints  == 1   \* control points held by one curve object
Resolution == 2   \* geometric_resolution of every curve object
MaxCalls   == 4   \* calls in one run of two curve objects
MaxFound   == 2   \* points, and intervals, one closest-point search reports
AngleSteps == 8   \* headings are spaced pi / AngleSteps apart
MaxBeams   == 2   \* ranges held by one laser scan

Inst    == {1, 2}                      \* the curve objects of a run
Handle  == 1..MaxHandles
Pt      == {1}                         \* 3D points
Param   == {0, 1, 2}                   \* curve parameters
Lengths == {1, 2}                      \* curve lengths s1240 reports
Curvs   == {0, 1}                      \* curvatures s2550 and s2556 report
Status  == {-1, 0, 1}                  \* SISL status: error, ok, warning
MaxErrs == {<<0, 0, 0>>, <<1, 0, 1>>}  \* maxerr[3] reported by s1940

PointSeqs == UNION {[1..n -> Pt] : n \in 0..MaxPoints}

\* A member that was never assigned: the constructor of lines 11-18 leaves
\* start_param and end_param uninitialised.  Every read of it may yield
\* any value.
Garbage  == 0 - 1
None     == "none"
NoLength == -1    \* the value the constructors give curve_length and curvature_max

VARIABLES
    obj,     \* obj[i]: the members of curve object i, or Dead
    heap,    \* heap[h]: "unused", "live", "freed" or "double_freed"
    ext,     \* handles held by the caller, outside any curve object
    last,    \* what the last call did: operation, object, argument, result
    since,   \* since[i]: values computed since the last update()/clear()
    calls    \* the number of calls made, where a run is bounded

vars == <<obj, heap, ext, last, since, calls>>

Dead == [alive |-> FALSE]

Alive(i) == obj[i].alive

NoCall == [op |-> "none", i |-> 0, arg |-> None, err |-> None, ret |-> None,
           lib |-> {}, status |-> None]

Call(op, i, arg, err, ret, lib, status) ==
    [op |-> op, i |-> i, arg |-> arg, err |-> err, ret |-> ret,
     lib |-> lib, status |-> status]

NoneSince == [len |-> NoLength, curv |-> NoLength]

\* Runs of two curve objects are bounded to MaxCalls calls; the others
\* start with calls = Unbounded and leave it alone.
Unbounded == 0 - 1

Tick == IF calls = Unbounded
        THEN calls' = calls
        ELSE calls < MaxCalls /\ calls' = calls + 1

\* ------------------------------------------------------------- the heap
HasUnused(hp) == \E h \in Handle : hp[h] = "unused"

\* The curve the library allocates next.
Fresh(hp) == CHOOSE h \in Handle :
                 hp[h] = "unused" /\ \A g \in Handle : g < h => hp[g] # "unused"

newCurve(hp, h) == [hp EXCEPT ![h] = "live"]

freeCurve(hp, h) ==
    [hp EXCEPT ![h] = IF @ = "live" THEN "freed" ELSE "double_freed"]

\* The status a SISL routine can report when it is handed the curve of o:
\* a routine handed a null curve reports an error.
LibStatus(o) == IF o.curve = 0 THEN {-1} ELSE Status

\* ------------------------------------------------------- construction
\* NURBSCurve3D(resolution, order, points)
construct(pts) ==
    [alive |-> TRUE, curve |-> 0, points |-> pts,
     start_param |-> Garbage, end_param |-> Garbage,
     has_curve_length |-> FALSE, curve_length |-> NoLength,
     has_curvature_max |-> FALSE, curvature_max |-> NoLength]

\* NURBSCurve3D(resolution, order, points, curve): s1363 reports the domain
constructWrap(pts, h, sp, ep) ==
    [alive |-> TRUE, curve |-> h, points |-> pts,
     start_param |-> sp, end_param |-> ep,
     has_curve_length |-> FALSE, curve_length |-> NoLength,
     has_curvature_max |-> FALSE, curvature_max |-> NoLength]

\* NURBSCurve3D(NURBSCurve3D const&): h is the curve copyCurve allocates
copyShallow(src, h) == src

copyConstruct(src, h) ==
    [src EXCEPT !.curve = IF src.curve # 0 THEN h ELSE 0]

Create(i) ==
    /\ Tick
    /\ ~Alive(i)
    /\ \E pts \in PointSeqs :
          /\ obj' = [obj EXCEPT ![i] = construct(pts)]
          /\ last' = Call("create", i, None, None, None, {}, None)
    /\ since' = [since EXCEPT ![i] = NoneSince]
    /\ UNCHANGED <<heap, ext>>

\* The caller has the library build curve h, then hands it to the wrapping
\* constructor.  When the constructor throws no object exists, and the
\* caller still holds h.
CreateWrap(i) ==
    /\ Tick
    /\ ~Alive(i)
    /\ HasUnused(heap)
    /\ LET h == Fresh(heap) IN
       \E status \in Status :
       \E pts \in (IF status # 0 THEN {<<>>} ELSE PointSeqs),
          sp \in (IF status # 0 THEN {0} ELSE Param), ep \in Param :
          /\ sp <= ep
          /\ status # 0 => ep = 0
          /\ heap' = newCurve(heap, h)
          /\ IF status # 0
             THEN /\ obj' = obj
                  /\ ext' = ext \cup {h}
                  /\ since' = since
                  /\ last' = Call("createWrap", i, h, "runtime_error", None,
                                  {"s1363"}, status)
             ELSE /\ obj' = [obj EXCEPT ![i] = constructWrap(pts, h, sp, ep)]
                  /\ ext' = ext
                  /\ since' = [since EXCEPT ![i] = NoneSince]
                  /\ last' = Call("createWrap", i, h, None, None,
                                  {"s1363"}, status)

Copy(i, j) ==
    /\ Tick
    /\ Alive(i) /\ ~Alive(j)
    /\ HasUnused(heap)
    /\ LET h == Fresh(heap) IN
          /\ obj' = [obj EXCEPT ![j] = copyConstruct(obj[i], h)]
          /\ heap' = IF obj'[j].curve = h THEN newCurve(heap, h) ELSE heap
          /\ last' = Call("copy", j, i, None, None,
                          IF obj[i].curve # 0 THEN {"copyCurve"} ELSE {}, None)
    /\ since' = [since EXCEPT ![j] = since[i]]
    /\ UNCHANGED ext

\* ~NURBSCurve3D()
destruct(o, hp) == IF o.curve # 0 THEN freeCurve(hp, o.curve) ELSE hp

Destroy(i) ==
    /\ Tick
    /\ Alive(i)
    /\ heap' = destruct(obj[i], heap)
    /\ obj' = [obj EXCEPT ![i] = Dead]
    /\ since' = [since EXCEPT ![i] = NoneSince]
    /\ last' = Call("destroy", i, None, None, None,
                    IF obj[i].curve # 0 THEN {"freeCurve"} ELSE {}, None)
    /\ UNCHANGED ext

\* ---------------------------------------------------------- evaluation
\* The test `_param < start_param || _param > end_param` of getPoint,
\* getCurvature and getVariationOfCurvature.  A read of an uninitialised
\* bound can come out either way.
OutOfRange(o, p) ==
    IF o.start_param = Garbage \/ o.end_param = Garbage
    THEN BOOLEAN
    ELSE {p < o.start_param \/ p > o.end_param}

\* getPoint / getCurvature / getVariationOfCurvature: fn is the SISL routine
\* (s1227, s2550, s2556), oor the outcome of the range test, status and val
\* what the routine reports.
evaluate(op, i, p, fn, oor, status, val) ==
    IF oor
    THEN Call(op, i, p, "out_of_range", None, {}, None)
    ELSE IF status # 0
         THEN Call(op, i, p, "runtime_error", None, {fn}, status)
         ELSE Call(op, i, p, None, val, {fn}, status)

Evaluate(op, fn, vals, i) ==
    /\ Tick
    /\ Alive(i)
    /\ \E p \in Param : \E oor \in OutOfRange(obj[i], p) :
       \E status \in (IF oor THEN {0} ELSE LibStatus(obj[i])), val \in vals :
          last' = evaluate(op, i, p, fn, oor, status, val)
    /\ UNCHANGED <<obj, heap, ext, since>>

GetPoint(i)                == Evaluate("getPoint", "s1227", {"pos"}, i)
GetCurvature(i)            == Evaluate("getCurvature", "s2550", {"curvature"}, i)
GetVariationOfCurvature(i) == Evaluate("getVariationOfCurvature", "s2556", {"VoC"}, i)

\* ------------------------------------------------------ cached scalars
\* getCurveLength(): the result is [o, err, ret, lib]
getCurveLengthNoMark(o, status, len) ==
    IF o.has_curve_length
    THEN [o |-> o, err |-> None, ret |-> o.curve_length, lib |-> {}]
    ELSE IF status # 0
         THEN [o |-> o, err |-> "runtime_error", ret |-> None, lib |-> {"s1240"}]
         ELSE [o |-> [o EXCEPT !.curve_length = len],
               err |-> None, ret |-> len, lib |-> {"s1240"}]

getCurveLength(o, status, len) ==
    IF o.has_curve_length
    THEN [o |-> o, err |-> None, ret |-> o.curve_length, lib |-> {}]
    ELSE IF status # 0
         THEN [o |-> o, err |-> "runtime_error", ret |-> None, lib |-> {"s1240"}]
         ELSE [o |-> [o EXCEPT !.curve_length = len, !.has_curve_length = TRUE],
               err |-> None, ret |-> len, lib |-> {"s1240"}]

\* What `since` records after a call of getCurveLength that returned r.
SinceLength(s, r) ==
    IF r.err = None /\ "s1240" \in r.lib THEN [s EXCEPT !.len = r.ret] ELSE s

GetCurveLength(i) ==
    /\ Tick
    /\ Alive(i)
    /\ \E status \in (IF obj[i].has_curve_length THEN {0} ELSE LibStatus(obj[i])) :
       \E len \in (IF status # 0 THEN {1} ELSE Lengths) :
          LET r == getCurveLength(obj[i], status, len) IN
          /\ obj' = [obj EXCEPT ![i] = r.o]
          /\ since' = [since EXCEPT ![i] = SinceLength(@, r)]
          /\ last' = Call("getCurveLength", i, None, r.err, r.ret, r.lib,
                          IF "s1240" \in r.lib THEN status ELSE None)
    /\ UNCHANGED <<heap, ext>>

\* The loop of getCurvatureMax from sample k on: cs are the curvatures
\* s2550 reports, in order, and fails tells that the call after the last
\* of them reports a non-zero status, which getCurvature throws on.
RECURSIVE curvatureLoop(_, _, _, _)
curvatureLoop(o, cs, k, fails) ==
    IF k > Len(cs)
    THEN IF fails
         THEN [o |-> o, err |-> "runtime_error"]
         ELSE [o |-> [o EXCEPT !.has_curvature_max = TRUE], err |-> None]
    ELSE curvatureLoop(
             IF cs[k] > o.curvature_max
             THEN [o EXCEPT !.curvature_max = cs[k]] ELSE o,
             cs, k + 1, fails)

\* The number of samples `for (p = start_param; p <= end_param; p += delPara)`
\* takes, delPara = (end_param - start_param) / curve_length * resolution:
\* none when the domain is empty, curve_length / resolution + 1 otherwise.
\* With an uninitialised bound any number of them.
SampleCounts(o) ==
    IF o.start_param = Garbage \/ o.end_param = Garbage
    THEN 0..2
    ELSE IF o.start_param > o.end_param THEN {0}
    ELSE {(o.curve_length \div Resolution) + 1}

\* getCurvatureMax(): getUnitParameter() calls getCurveLength() first.
getCurvatureMax(o, status, len, cs, fails) ==
    IF o.has_curvature_max
    THEN [o |-> o, err |-> None, ret |-> o.curvature_max, lib |-> {}]
    ELSE LET r == getCurveLength(o, status, len) IN
         IF r.err # None THEN r
         ELSE LET l == curvatureLoop([r.o EXCEPT !.curvature_max = 0], cs, 1, fails) IN
              [o |-> l.o, err |-> l.err,
               ret |-> IF l.err = None THEN l.o.curvature_max ELSE None,
               lib |-> r.lib \cup (IF cs # <<>> \/ fails THEN {"s2550"} ELSE {})]

\* delPara is 0 when start_param = end_param, and the loop never ends:
\* the call does not return, and is left out.
GetCurvatureMax(i) ==
    /\ Tick
    /\ Alive(i)
    /\ \E status \in (IF obj[i].has_curve_length THEN {0} ELSE LibStatus(obj[i])) :
       \E len \in (IF status # 0 THEN {1} ELSE Lengths) :
          LET o  == obj[i]
              r0 == getCurveLength(o, status, len) IN
          /\ o.has_curvature_max \/ o.start_param = Garbage
                \/ o.end_param = Garbage \/ o.start_param # o.end_param
          /\ \E n \in (IF o.has_curvature_max \/ r0.err # None
                       THEN {0} ELSE SampleCounts(r0.o)) :
             \E m \in 0..n : \E cs \in [1..m -> Curvs] :
                LET r == getCurvatureMax(o, status, len, cs, m < n) IN
                /\ obj' = [obj EXCEPT ![i] = r.o]
                /\ since' = [since EXCEPT ![i] =
                       IF o.has_curvature_max THEN @
                       ELSE IF r.err = None
                            THEN [SinceLength(@, r0) EXCEPT !.curv = r.ret]
                            ELSE SinceLength(@, r0)]
                /\ last' = Call("getCurvatureMax", i, None, r.err, r.ret, r.lib,
                                IF "s1240" \in r.lib THEN status ELSE None)
    /\ UNCHANGED <<heap, ext>>

\* ------------------------------------------------------------ mutation
addPoint(o, pt) == [o EXCEPT !.points = Append(@, pt)]

AddPoint(i) ==
    /\ Tick
    /\ Alive(i)
    /\ Len(obj[i].points) < MaxPoints
    /\ \E pt \in Pt : obj' = [obj EXCEPT ![i] = addPoint(@, pt)]
    /\ last' = Call("addPoint", i, None, None, None, {}, None)
    /\ UNCHANGED <<heap, ext, since>>

\* update(): h is the curve s1356 allocates, ep the end parameter it
\* reports.  The result is [o, heap, err].  s1356 reports an error when it
\* is given no point to interpolate.
update(o, hp, h, status, ep) ==
    LET hp1 == IF o.curve # 0 THEN freeCurve(hp, o.curve) ELSE hp
        o1  == [o EXCEPT !.start_param = 0, !.curve = 0]
    IN  IF status < 0
        THEN [o |-> o1, heap |-> hp1, err |-> "runtime_error"]
        ELSE [o |-> [o1 EXCEPT !.curve = h, !.end_param = ep],
              heap |-> newCurve(hp1, h),
              err |-> IF status # 0 THEN "runtime_error" ELSE None]

Update(i) ==
    /\ Tick
    /\ Alive(i)
    /\ HasUnused(heap)
    /\ \E status \in (IF obj[i].points = <<>> THEN {-1} ELSE Status) :
       \E ep \in (IF status < 0 THEN {0} ELSE Param) :
          LET r == update(obj[i], heap, Fresh(heap), status, ep) IN
          /\ obj' = [obj EXCEPT ![i] = r.o]
          /\ heap' = r.heap
          /\ last' = Call("update", i, None, r.err, None, {"s1356"}, status)
    /\ since' = [since EXCEPT ![i] = NoneSince]
    /\ UNCHANGED ext

\* clear()
clear(o, hp) ==
    [o |-> [o EXCEPT !.curve = 0, !.points = <<>>],
     heap |-> IF o.curve # 0 THEN freeCurve(hp, o.curve) ELSE hp]

Clear(i) ==
    /\ Tick
    /\ Alive(i)
    /\ LET r == clear(obj[i], heap) IN
          /\ obj' = [obj EXCEPT ![i] = r.o]
          /\ heap' = r.heap
    /\ last' = Call("clear", i, None, None, None,
                    IF obj[i].curve # 0 THEN {"freeCurve"} ELSE {}, None)
    /\ since' = [since EXCEPT ![i] = NoneSince]
    /\ UNCHANGED ext

\* simplify(tolerance): h is the curve s1940 allocates, maxerr the errors
\* it reports.  The result is [o, heap, err, ret, lib].
simplifyFreeFirst(o, hp, h, status, maxerr) ==
    IF o.curve = 0
    THEN [o |-> o, heap |-> hp, err |-> "runtime_error", ret |-> None, lib |-> {}]
    ELSE LET hp1 == IF status >= 0 THEN newCurve(hp, h) ELSE hp IN
         IF status # 0
         THEN [o |-> o, heap |-> freeCurve(hp1, o.curve), err |-> "runtime_error",
               ret |-> None, lib |-> {"s1940"}]
         ELSE [o |-> [o EXCEPT !.curve = h], heap |-> freeCurve(hp1, o.curve),
               err |-> None, ret |-> maxerr, lib |-> {"s1940"}]

simplify(o, hp, h, status, maxerr) ==
    IF o.curve = 0
    THEN [o |-> o, heap |-> hp, err |-> "runtime_error", ret |-> None, lib |-> {}]
    ELSE LET hp1 == IF status >= 0 THEN newCurve(hp, h) ELSE hp IN
         IF status # 0
         THEN [o |-> o, heap |-> hp1, err |-> "runtime_error",
               ret |-> None, lib |-> {"s1940"}]
         ELSE [o |-> [o EXCEPT !.curve = h], heap |-> freeCurve(hp1, o.curve),
               err |-> None, ret |-> maxerr, lib |-> {"s1940"}]

Simplify(i) ==
    /\ Tick
    /\ Alive(i)
    /\ obj[i].curve # 0 => HasUnused(heap)
    /\ \E status \in (IF obj[i].curve = 0 THEN {0} ELSE Status) :
       \E maxerr \in (IF status # 0 THEN {<<0, 0, 0>>} ELSE MaxErrs) :
          LET h == IF HasUnused(heap) THEN Fresh(heap) ELSE 0
              r == simplify(obj[i], heap, h, status, maxerr) IN
          /\ obj' = [obj EXCEPT ![i] = r.o]
          /\ heap' = r.heap
          /\ last' = Call("simplify", i, None, r.err, r.ret, r.lib,
                          IF r.lib # {} THEN status ELSE None)
    /\ UNCHANGED <<ext, since>>

\* ------------------------------------------------ closest-point search
\* What s1953 and findClosestPoints report: exact points are parameters,
\* an interval (SISLIntcurve) is its pair epar1[0], epar1[1].
FoundPoints == UNION {[1..n -> Param] : n \in 0..MaxFound}
FoundCurves == UNION {[1..n -> {<<0, 1>>, <<1, 2>>}] : n \in 0..MaxFound}

\* findClosestPoints(_pt, _result_points, _result_curves, _geores): status,
\* points and curves are what s1953 reports.
findClosestPoints(_result_points, _result_curves, status, points, curves) ==
    IF status # 0
    THEN [err |-> "runtime_error", points |-> _result_points,
          curves |-> _result_curves]
    ELSE [err |-> None,
          points |-> _result_points \o points,
          curves |-> _result_curves \o
                       [k \in 1..Len(curves) |-> <<curves[k][1], curves[k][2]>>]]

\* findOneClosestPoint(_pt, _geores): the result is [err, ret]
findOneClosestPointIntervalFirst(status, libPoints, libCurves) ==
    LET r == findClosestPoints(<<>>, <<>>, status, libPoints, libCurves) IN
    IF r.err # None THEN [err |-> r.err, ret |-> None]
    ELSE IF r.curves = <<>>
         THEN IF r.points = <<>>
              THEN [err |-> "logic_error", ret |-> None]
              ELSE [err |-> None, ret |-> Head(r.points)]
         ELSE [err |-> None, ret |-> Head(r.curves)[1]]

findOneClosestPoint(status, libPoints, libCurves) ==
    LET r == findClosestPoints(<<>>, <<>>, status, libPoints, libCurves) IN
    IF r.err # None THEN [err |-> r.err, ret |-> None]
    ELSE IF r.points = <<>>
         THEN IF r.curves = <<>>
              THEN [err |-> "logic_error", ret |-> None]
              ELSE [err |-> None, ret |-> Head(r.curves)[1]]
         ELSE [err |-> None, ret |-> Head(r.points)]

FindOneClosestPoint ==
    /\ \E status \in Status, libPoints \in FoundPoints, libCurves \in FoundCurves :
          LET r == findOneClosestPoint(status, libPoints, libCurves) IN
          last' = Call("findOneClosestPoint", 0,
                       [points |-> libPoints, curves |-> libCurves],
                       r.err, r.ret, {"s1953"}, status)
    /\ UNCHANGED <<obj, heap, ext, since, calls>>

\* The statuses s1953 and s1774 can report: errors, ok, warnings.
SearchStatus == {-2, -1, 0, 1, 2}

FindClosestPoints ==
    /\ \E status \in SearchStatus, libPoints \in FoundPoints,
          libCurves \in FoundCurves :
          LET r == findClosestPoints(<<>>, <<>>, status, libPoints, libCurves) IN
          last' = Call("findClosestPoints", 0,
                       [points |-> libPoints, curves |-> libCurves],
                       r.err, [points |-> r.points, curves |-> r.curves],
                       {"s1953"}, status)
    /\ UNCHANGED <<obj, heap, ext, since, calls>>

\* localClosestPointSearch(_pt, _guess, _start, _end, _geores): status and
\* param are what s1774 reports.  The result is [err, ret].
localClosestPointSearchStrict(status, param) ==
    IF status # 0
    THEN [err |-> "runtime_error", ret |-> None]
    ELSE [err |-> None, ret |-> param]

localClosestPointSearch(status, param) ==
    IF status < 0
    THEN [err |-> "runtime_error", ret |-> None]
    ELSE [err |-> None, ret |-> param]

LocalClosestPointSearch ==
    /\ \E status \in SearchStatus, param \in Param :
          LET r == localClosestPointSearch(status, param) IN
          last' = Call("localClosestPointSearch", 0, param, r.err, r.ret,
                       {"s1774"}, status)
    /\ UNCHANGED <<obj, heap, ext, since, calls>>

\* ------------------------------------------------ path-tracking errors
\* Angles are in thousandths of a radian.
M_PI   == 3142    \* pi
M_2_PI == 637     \* the constant of <math.h>: 2/pi
TwoPi  == 2 * M_PI

\* The headings atan2 can return, and the headings a caller can hand in.
Angles == {(k * M_PI) \div AngleSteps : k \in (0 - AngleSteps)..AngleSteps}

\* headingError(_actZRot, _param): heading is what getHeading(_param) returns
headingError(_actZRot, heading) ==
    LET error == _actZRot - heading IN
    IF error > M_PI THEN error - M_2_PI
    ELSE IF error < 0 - M_PI THEN error + M_2_PI
    ELSE error

HeadingError ==
    /\ \E a \in Angles, h \in Angles :
          last' = Call("headingError", 0, <<a, h>>, None, headingError(a, h),
                       {"s2559"}, None)
    /\ UNCHANGED <<obj, heap, ext, since, calls>>

\* Planar vectors have whole coordinates in -2..2, angles of them are in
\* degrees.  atan2 of the vector (a, b) with a >= b >= 0, a > 0:
Base(a, b) == IF b = 0 THEN 0 ELSE IF a = b THEN 45 ELSE 27

Abs(x) == IF x < 0 THEN 0 - x ELSE x

\* atan2(y, x), in (-180, 180]
atan2(y, x) ==
    LET ax == Abs(x)
        ay == Abs(y)
        alpha == IF ax >= ay THEN Base(ax, ay) ELSE 90 - Base(ay, ax)
    IN  IF x >= 0 /\ y >= 0 THEN alpha
        ELSE IF x < 0 /\ y >= 0 THEN 180 - alpha
        ELSE IF x < 0 THEN alpha - 180
        ELSE 0 - alpha

\* getHeading(_param): t is the tangent row of the Frenet frame
getHeading(t) == atan2(t[2], t[1])

\* distanceError(_pt, _param): c is what getPoint(_param) returns, t the
\* tangent at _param.  The result is the sign and the square of the norm
\* returned.  A null error vector normalises to NaN, and NaN >= 0.0 is
\* false.
distanceError(_pt, c, t) ==
    LET error == <<_pt[1] - c[1], _pt[2] - c[2], 0>>
        sq    == error[1] * error[1] + error[2] * error[2] + error[3] * error[3]
    IN  IF error[1] = 0 /\ error[2] = 0
        THEN [neg |-> TRUE, sq |-> sq]
        ELSE LET angle == atan2(error[2], error[1]) - getHeading(t) IN
             [neg |-> ~(angle >= 0), sq |-> sq]

Tangents  == {<<1, 0>>, <<1, 1>>, <<0, 1>>, <<-1, 1>>,
              <<-1, 0>>, <<-1, -1>>, <<0, -1>>, <<1, -1>>}
Points3D  == {<<x, y, z>> : x \in -1..1, y \in -1..1, z \in 0..1}
CurvePts  == {<<0, 0, 0>>, <<1, 0, 1>>, <<-1, 1, 0>>}

DistanceError ==
    /\ \E pt \in Points3D, c \in CurvePts, t \in Tangents :
          last' = Call("distanceError", 0, [pt |-> pt, c |-> c, t |-> t],
                       None, distanceError(pt, c, t), {"s1227", "s2559"}, None)
    /\ UNCHANGED <<obj, heap, ext, since, calls>>

\* ----------------------------------------------------------- laser scan
\* base::samples::LaserScan (src/base/samples/LaserScan.hpp): ranges are in
\* millimetres, beam indices count from 0.
END_LASER_RANGE_ERRORS == 6

RangeValues == {3, 6, 10}
MinRanges   == {0, 7}
MaxRanges   == {5, 10}
Scans       == UNION {[1..n -> RangeValues] : n \in 0..MaxBeams}
Beams       == 0..(MaxBeams + 1)

\* isRangeValid(range)
isRangeValid(range, minRange, maxRange) ==
    range >= minRange /\ range <= maxRange /\ range >= END_LASER_RANGE_ERRORS

\* The values the read ranges[i] can yield: the element when i is a
\* position of the vector, anything when it reads past its end.
ReadRange(ranges, i) ==
    IF i < Len(ranges) THEN {ranges[i + 1]} ELSE RangeValues

PastEnd(ranges, i) == ~(i < Len(ranges))

\* isValidBeam(i): read is what ranges[i] yields.  The result is
\* [err, ret, oob], oob telling that ranges was read past its end.
isValidBeam(ranges, i, minRange, maxRange, read) ==
    IF i > Len(ranges)
    THEN [err |-> "out_of_range", ret |-> None, oob |-> FALSE]
    ELSE [err |-> None, ret |-> isRangeValid(read, minRange, maxRange),
          oob |-> PastEnd(ranges, i)]

\* getPointFromScanBeamXForward(i, point): read and read2 are what the two
\* reads of ranges[i] yield; the point lies on the x axis before the
\* rotation by the beam angle.
getPointFromScanBeamXForward(ranges, i, minRange, maxRange, read, read2) ==
    LET v == isValidBeam(ranges, i, minRange, maxRange, read) IN
    IF v.err # None THEN v
    ELSE IF ~v.ret THEN [err |-> None, ret |-> FALSE, oob |-> v.oob]
    ELSE [err |-> None,
          ret |-> [axis |-> "x", range |-> read2, beam |-> i],
          oob |-> v.oob \/ PastEnd(ranges, i)]

\* getPointFromScanBeam(i, point): the same with the point on the y axis.
getPointFromScanBeam(ranges, i, minRange, maxRange, read, read2) ==
    LET v == isValidBeam(ranges, i, minRange, maxRange, read) IN
    IF v.err # None THEN v
    ELSE IF ~v.ret THEN [err |-> None, ret |-> FALSE, oob |-> v.oob]
    ELSE [err |-> None,
          ret |-> [axis |-> "y", range |-> read2, beam |-> i],
          oob |-> v.oob \/ PastEnd(ranges, i)]

IsValidBeam ==
    /\ \E ranges \in Scans, i \in Beams, minRange \in MinRanges,
          maxRange \in MaxRanges :
       \E read \in ReadRange(ranges, i) :
          LET r == isValidBeam(ranges, i, minRange, maxRange, read) IN
          last' = Call("isValidBeam", 0,
                       [ranges |-> ranges, i |-> i, minRange |-> minRange,
                        maxRange |-> maxRange],
                       r.err, [val |-> r.ret, oob |-> r.oob], {}, None)
    /\ UNCHANGED <<obj, heap, ext, since, calls>>

GetPointFromScanBeamXForward ==
    /\ \E ranges \in Scans, i \in Beams, minRange \in MinRanges,
          maxRange \in MaxRanges :
       \E read \in ReadRange(ranges, i), read2 \in ReadRange(ranges, i) :
          LET r == getPointFromScanBeamXForward(ranges, i, minRange, maxRange, read, read2) IN
          last' = Call("getPointFromScanBeamXForward", 0,
                       [ranges |-> ranges, i |-> i, minRange |-> minRange,
                        maxRange |-> maxRange],
                       r.err, [val |-> r.ret, oob |-> r.oob], {}, None)
    /\ UNCHANGED <<obj, heap, ext, since, calls>>

GetPointFromScanBeam ==
    /\ \E ranges \in Scans, i \in Beams, minRange \in MinRanges,
          maxRange \in MaxRanges :
       \E read \in ReadRange(ranges, i), read2 \in ReadRange(ranges, i) :
          LET r == getPointFromScanBeam(ranges, i, minRange, maxRange, read, read2) IN
          last' = Call("getPointFromScanBeam", 0,
                       [ranges |-> ranges, i |-> i, minRange |-> minRange,
                        maxRange |-> maxRange],
                       r.err, [val |-> r.ret, oob |-> r.oob], {}, None)
    /\ UNCHANGED <<obj, heap, ext, since, calls>>

Init ==
    /\ obj = [i \in Inst |-> Dead]
    /\ heap = [h \in Handle |-> "unused"]
    /\ ext = {}
    /\ last = NoCall
    /\ since = [i \in Inst |-> NoneSince]
    /\ calls = Unbounded

\* The calls that build, change and destroy curve object i.
Lifecycle(i) ==
    \/ Create(i)
    \/ CreateWrap(i)
    \/ Destroy(i)
    \/ AddPoint(i)
    \/ Update(i)
    \/ Clear(i)
    \/ Simplify(i)

\* One curve object and its cached scalars.
Next ==
    \E i \in {1} :
        \/ Lifecycle(i)
        \/ GetCurveLength(i)
        \/ GetCurvatureMax(i)

Spec == Init /\ [][Next]_vars

\* One curve object and its evaluation.
NextEval ==
    \E i \in {1} :
        \/ Lifecycle(i)
        \/ GetPoint(i)
        \/ GetCurvature(i)
        \/ GetVariationOfCurvature(i)

SpecEval == Init /\ [][NextEval]_vars

\* Two curve objects, the second built as a copy of the first, in runs of
\* at most MaxCalls calls.
InitCopy ==
    /\ obj = [i \in Inst |-> Dead]
    /\ heap = [h \in Handle |-> "unused"]
    /\ ext = {}
    /\ last = NoCall
    /\ since = [i \in Inst |-> NoneSince]
    /\ calls = 0

Mutate(i) ==
    \/ Destroy(i)
    \/ AddPoint(i)
    \/ Update(i)
    \/ Clear(i)
    \/ Simplify(i)
    \/ GetCurveLength(i)
    \/ GetCurvatureMax(i)

NextCopy ==
    \/ Create(1)
    \/ CreateWrap(1)
    \/ Copy(1, 2)
    \/ \E i \in Inst : Mutate(i)

SpecCopy == InitCopy /\ [][NextCopy]_vars

\* The functions of the search results and of the path-tracking errors,
\* applied to every input of the sets above.
NextSearch == FindOneClosestPoint

SpecSearch == Init /\ [][NextSearch]_vars

\* The two searches under every status the library can report.
NextStatus ==
    \/ FindClosestPoints
    \/ LocalClosestPointSearch

SpecStatus == Init /\ [][NextStatus]_vars

\* The beam accessors of a laser scan.
NextLaser ==
    \/ IsValidBeam
    \/ GetPointFromScanBeamXForward
    \/ GetPointFromScanBeam

SpecLaser == Init /\ [][NextLaser]_vars

NextHeading == HeadingError

SpecHeading == Init /\ [][NextHeading]_vars

NextDistance == DistanceError

SpecDistance == Init /\ [][NextDistance]_vars

\* ================================================================ claims

\* C1: when the caches are valid.  In every state, for every curve object,
\* the length cache is valid if and only if a fitted curve is present and
\* the length was computed since the last update() or clear(), and
\* likewise the curvature-max cache; so update() and clear() leave both
\* caches invalid.
C1_CachesValidIffComputedSince ==
    \A i \in Inst : Alive(i) =>
        /\ obj[i].has_curve_length <=>
              (obj[i].curve # 0 /\ since[i].len # NoLength)
        /\ obj[i].has_curvature_max <=>
              (obj[i].curve # 0 /\ since[i].curv # NoLength)

\* C2: the domain check of the evaluations.  After getPoint, getCurvature
\* or getVariationOfCurvature: when no fitted curve is present or the
\* parameter lies outside [start_param, end_param], the call failed with
\* out_of_range and made no library call; when a curve is present and the
\* parameter lies inside, it succeeded (the library reporting status 0).
EvalOps == {"getPoint", "getCurvature", "getVariationOfCurvature"}

C2_EvaluationChecksDomain ==
    last.op \in EvalOps =>
        LET o == obj[last.i]
            p == last.arg
        IN  IF o.curve = 0 \/ p < o.start_param \/ p > o.end_param
            THEN last.err = "out_of_range" /\ last.lib = {}
            ELSE /\ last.err # "out_of_range"
                 /\ last.status = 0 => last.err = None

\* C3: no partial success.  A call that fails leaves the members of every
\* curve object as they were, and the curve the object holds allocated.
C3_FailureChangesNothing ==
    [][last'.err # None =>
          /\ obj' = obj
          /\ \A i \in Inst :
                (Alive(i) /\ obj[i].curve # 0) =>
                    heap'[obj[i].curve] = heap[obj[i].curve]]_vars

\* C4: every curve handle is released exactly once.  In every state no
\* handle was freed twice, no object holds a handle that is not allocated,
\* every allocated handle is held by an object (or still by the caller
\* whose wrapping constructor threw), and no two objects hold the same
\* handle.
C4_HandlesReleasedExactlyOnce ==
    /\ \A h \in Handle : heap[h] # "double_freed"
    /\ \A i \in Inst :
          (Alive(i) /\ obj[i].curve # 0) => heap[obj[i].curve] = "live"
    /\ \A h \in Handle :
          heap[h] = "live" =>
              h \in ext \/ \E i \in Inst : Alive(i) /\ obj[i].curve = h
    /\ \A i, j \in Inst :
          (i # j /\ Alive(i) /\ Alive(j) /\ obj[i].curve # 0) =>
              obj[i].curve # obj[j].curve

\* C5: a copy is independent of its source.  A call on one object leaves
\* the members of the other object, and the curve the other holds,
\* unchanged; the copy constructor gives the copy a curve of its own when
\* the source has one, and the source's points, domain and the content of
\* both caches.
C5_CopyIsIndependent ==
    [][/\ \A i \in Inst :
             (Alive(i) /\ last'.i # i) =>
                 /\ obj'[i] = obj[i]
                 /\ obj[i].curve # 0 =>
                        heap'[obj[i].curve] = heap[obj[i].curve]
       /\ last'.op = "copy" =>
             LET src == obj[last'.arg]
                 cpy == obj'[last'.i]
             IN  /\ cpy.has_curve_length = src.has_curve_length
                 /\ cpy.curve_length = src.curve_length
                 /\ cpy.has_curvature_max = src.has_curvature_max
                 /\ cpy.curvature_max = src.curvature_max
                 /\ cpy.points = src.points
                 /\ cpy.start_param = src.start_param
                 /\ cpy.end_param = src.end_param
                 /\ (src.curve = 0) <=> (cpy.curve = 0)
                 /\ src.curve # 0 =>
                        /\ cpy.curve # src.curve
                        /\ heap[cpy.curve] = "unused"
                        /\ heap'[cpy.curve] = "live"]_vars

\* A copy whose caches came valid from its source has been refitted, and
\* the source still holds its own curve and its caches.
C5_Witness ==
    /\ last.op = "update" /\ last.i = 2 /\ last.err = None
    /\ Alive(1) /\ obj[1].curve # 0 /\ heap[obj[1].curve] = "live"
    /\ obj[1].has_curve_length /\ obj[1].has_curvature_max
    /\ obj[2].has_curve_length /\ obj[2].curve # obj[1].curve

\* C6: the length is computed once.  A getCurveLength() that succeeds
\* after an earlier one did, with no update() or clear() in between,
\* returns the value the earlier one returned and makes no library call; a
\* getCurveLength() that fails has asked the library and leaves the cache
\* invalid.
C6_LengthComputedOnce ==
    [][last'.op = "getCurveLength" =>
          LET i == last'.i IN
          /\ (last'.err = None /\ since[i].len # NoLength) =>
                 /\ last'.ret = since[i].len
                 /\ last'.lib = {}
          /\ last'.err # None =>
                 /\ "s1240" \in last'.lib
                 /\ ~obj'[i].has_curve_length]_vars

\* A second getCurveLength() was answered from the cache.
C6_Witness ==
    /\ last.op = "getCurveLength" /\ last.err = None /\ last.lib = {}
    /\ since[last.i].len = last.ret

\* C7: headingError wraps by one full turn.  The result is the difference
\* actualHeading - headingAt(param), or that difference less or plus 2 pi,
\* and lies in (-pi, pi].
C7_HeadingErrorWrapped ==
    last.op = "headingError" =>
        LET error == last.arg[1] - last.arg[2] IN
        /\ last.ret \in {error, error - TwoPi, error + TwoPi}
        /\ 0 - M_PI < last.ret /\ last.ret <= M_PI

\* The reflection of the planar vector v across the line of direction t.
Reflect(v, t) ==
    LET d == v[1] * t[1] + v[2] * t[2]
        n == t[1] * t[1] + t[2] * t[2]
    IN  <<(2 * d * t[1]) \div n - v[1], (2 * d * t[2]) \div n - v[2]>>

\* C8: distanceError is the signed planar distance.  For a point off the
\* tangent line, the magnitude is the planar distance from the point to
\* the curve point, and the point reflected across the tangent line gets
\* the opposite sign.
C8_DistanceErrorSigned ==
    last.op = "distanceError" =>
        LET pt  == last.arg.pt
            c   == last.arg.c
            t   == last.arg.t
            v   == <<pt[1] - c[1], pt[2] - c[2]>>
            w   == Reflect(v, t)
            mir == <<c[1] + w[1], c[2] + w[2], pt[3]>>
        IN  (t[1] * v[2] - t[2] * v[1] # 0) =>
                /\ last.ret.sq = v[1] * v[1] + v[2] * v[2]
                /\ distanceError(mir, c, t).neg # last.ret.neg

\* C9: what findOneClosestPoint returns.  When s1953 reports a non-zero
\* status the call fails with runtime_error; otherwise it returns the first
\* exact point when there is one, else the start of the first interval
\* when there is one, and fails with logic_error exactly when there is
\* neither.
C9_FindOneClosestPoint ==
    last.op = "findOneClosestPoint" =>
        LET points == last.arg.points
            curves == last.arg.curves
        IN  /\ last.status # 0 => last.err = "runtime_error"
            /\ (last.status = 0 /\ points # <<>>) =>
                   last.err = None /\ last.ret = points[1]
            /\ (last.status = 0 /\ points = <<>> /\ curves # <<>>) =>
                   last.err = None /\ last.ret = curves[1][1]
            /\ last.err = "logic_error" <=>
                   (last.status = 0 /\ points = <<>> /\ curves = <<>>)

\* No exact point was found, and the start of the first interval returned,
\* which is not the parameter a later interval or the interval's end gives.
C9_Witness ==
    /\ last.op = "findOneClosestPoint" /\ last.err = None
    /\ last.arg.points = <<>> /\ Len(last.arg.curves) = 2
    /\ last.ret = 0 /\ last.arg.curves[2][1] = 1

\* C10: simplify replaces the curve only on success.  It fails with
\* runtime_error when no curve is fitted, without a library call, and when
\* s1940 reports a non-zero status; a failing call leaves the object's
\* curve in place and allocated; a call succeeds only on status 0, and
\* then the old curve is freed, the object holds another, allocated curve,
\* and the three maximum errors are returned.
C10_SimplifyReplacesOnSuccess ==
    [][last'.op = "simplify" =>
          LET i   == last'.i
              old == obj[i].curve
              new == obj'[i].curve
          IN  /\ old = 0 => last'.err = "runtime_error" /\ last'.lib = {}
              /\ (old # 0 /\ last'.status # 0) => last'.err = "runtime_error"
              /\ last'.err # None =>
                     /\ new = old
                     /\ old # 0 => heap'[old] = "live"
              /\ last'.err = None =>
                     /\ old # 0 /\ last'.status = 0
                     /\ heap'[old] = "freed"
                     /\ new # 0 /\ new # old /\ heap'[new] = "live"
                     /\ Len(last'.ret) = 3]_vars

\* s1940 reported a non-zero status for a fitted curve, which is still
\* held and allocated.
C10_Witness ==
    /\ last.op = "simplify" /\ last.err = "runtime_error" /\ last.lib = {"s1940"}
    /\ obj[last.i].curve # 0 /\ heap[obj[last.i].curve] = "live"

\* C11: the two status conventions.  For every status s the library
\* reports, localClosestPointSearch fails with runtime_error if and only if
\* s < 0, and returns the parameter found otherwise; findClosestPoints
\* fails with runtime_error if and only if s # 0.
C11_StatusConventions ==
    /\ last.op = "localClosestPointSearch" =>
           /\ last.err = "runtime_error" <=> last.status < 0
           /\ last.status >= 0 => last.err = None /\ last.ret = last.arg
    /\ last.op = "findClosestPoints" =>
           /\ last.err = "runtime_error" <=> last.status # 0
           /\ last.status = 0 => last.err = None

\* The local search returned the parameter found under a warning status.
C11_Witness ==
    /\ last.op = "localClosestPointSearch" /\ last.status > 0
    /\ last.err = None /\ last.ret = last.arg

\* C12: the beam index is checked.  After isValidBeam(i),
\* getPointFromScanBeamXForward(i) or getPointFromScanBeam(i) with i not a
\* position of ranges (i >= ranges.size()), the call failed with
\* out_of_range; and no call read ranges past its end.
LaserOps == {"isValidBeam", "getPointFromScanBeamXForward", "getPointFromScanBeam"}

C12_BeamIndexChecked ==
    last.op \in LaserOps =>
        /\ last.arg.i >= Len(last.arg.ranges) => last.err = "out_of_range"
        /\ ~last.ret.oob
====
